---- MODULE Spec2Model ----
(***************************************************************************)
(* Model of the multi-cluster consumer of kafka-client:                    *)
(*   src/internal/consumer/multiclusterConsumer.go  (MultiClusterConsumer) *)
(*   src/consumerOptions.go                         (partial construction) *)
(* The lifecycle guard (util.RunLifecycle), the per-cluster consumer       *)
(* (ClusterConsumer) and the constructor that builds the cluster map       *)
(* (NewConsumer) live in other files of the repository; they are modelled  *)
(* from the design document (sections 4.1, 4.6 and 6): the guard is a      *)
(* mutex-protected state machine whose Stop does nothing unless started.   *)
(*                                                                         *)
(* Texts (error messages) are sequences of one-character strings, so that  *)
(* formatting and substring containment are computed, not assumed.         *)
(***************************************************************************)
EXTENDS Integers, Sequences, FiniteSets, TLC

\* ------------------------------------------------------------------ bounds
\* Total number of public calls (Start, Stop, ResetOffset, MergeDLQ,
\* PartialConstructionError) made by all callers together.
MaxCalls == 3
\* Number of options a caller passes to the constructor.
MaxOptions == 2
\* Messages a per-cluster consumer writes to the outbound channel.
MaxMsgs == 1

\* Concurrent callers of the coordinator.
Threads == {"g1", "g2"}
\* The clusters named by the configured topics, and a name that is never a
\* key of the cluster-consumer map.
ConfiguredClusters == {"c1", "c2"}
AllNames == ConfiguredClusters \cup {"cx"}
\* Partitions and offset ranges callers pass.
Partitions == {0, 1, 12}
OffsetRanges == {"r1", "r2"}

\* ------------------------------------------------------------------- texts
NoError == << >>
Digits == <<"0", "1", "2", "3", "4", "5", "6", "7", "8", "9">>

RECURSIVE Itoa(_)
\* fmt's %d of an integer
Itoa(n) ==
  IF n < 0 THEN <<"-">> \o Itoa(0 - n)
  ELSE IF n < 10 THEN <<Digits[n + 1]>>
  ELSE Itoa(n \div 10) \o <<Digits[(n % 10) + 1]>>

RECURSIVE Join(_, _)
\* strings.Join
Join(list, sep) ==
  IF Len(list) = 0 THEN << >>
  ELSE IF Len(list) = 1 THEN list[1]
  ELSE list[1] \o sep \o Join(Tail(list), sep)

\* strings.Contains
Contains(s, sub) ==
  \E i \in 1..(Len(s) - Len(sub) + 1) : SubSeq(s, i, i + Len(sub) - 1) = sub

TxtPartition == <<"p", "a", "r", "t", "i", "t", "i", "o", "n", "=">>
TxtErr == <<" ", "e", "r", "r", "=">>
TxtMergeFailed ==
  <<"D", "L", "Q", " ", "m", "e", "r", "g", "e", " ", "f", "a", "i", "l", "e", "d", " ", "f", "o", "r", " ">>
TxtComma == <<",">>

\* errors.New("no cluster consumer found")
ErrNoCluster ==
  <<"n", "o", " ", "c", "l", "u", "s", "t", "e", "r", " ", "c", "o", "n", "s", "u", "m", "e", "r", " ", "f", "o", "u", "n", "d">>
\* the error of the lifecycle guard for a Start that is not the first
ErrStartedTwice ==
  <<"n", "o", "t", " ", "s", "t", "a", "r", "t", "e", "d", " ", "t", "w", "i", "c", "e">>
\* the error a per-cluster consumer returns when it cannot start
ErrClusterStart == <<"s", "t", "a", "r", "t", " ", "e", "r", "r", "o", "r">>
\* the results a per-cluster consumer's ResetOffset can return
ErrOffsetRange == <<"b", "a", "d", " ", "r", "a", "n", "g", "e">>
ClusterResetResults == {NoError, ErrOffsetRange}

\* fmt.Sprintf("partition=%d err=%s", partition, err)
FormatPartitionErr(partition, e) == TxtPartition \o Itoa(partition) \o TxtErr \o e

\* fmt.Errorf("DLQ merge failed for %s", strings.Join(errList, ","))
FormatMergeErr(list) == TxtMergeFailed \o Join(list, TxtComma)

\* ------------------------------------------------------------ configuration
\* kafka.ConsumerTopicList: each topic names its cluster and its DLQ topic.
TopicList ==
  << [Name |-> "t1", Cluster |-> "c1", DLQ |-> [Name |-> "t1-dlq", Cluster |-> "c2"]],
     [Name |-> "t2", Cluster |-> "c2", DLQ |-> [Name |-> "t2-dlq", Cluster |-> "cx"]] >>
\* The topic names callers pass to ResetOffset directly.
ResetTopics == {"t1", "t2"}
\* The partitions callers pass to ResetOffset directly.
ResetPartitions == {0, 1}

\* ------------------------------------------------------------------- state
VARIABLES
  options,       \* consumerBuildOptions handed to the constructor
  built,         \* "none", "ok" (a coordinator exists) or "failed"
  pce,           \* the last PartialConstructionError call: its number, argument, result
  registered,    \* keys of clusterConsumerMap
  clients,       \* keys of clusterToSaramaClientMap
  startErr,      \* per-cluster consumer: does its start fail
  ccLife,        \* per-cluster consumer: state of its own lifecycle guard
  startInvoked,  \* per-cluster consumer: number of Start() invocations
  stopInvoked,   \* per-cluster consumer: number of Stop() invocations
  resetInvoked,  \* per-cluster consumer: number of ResetOffset() invocations
  lastReset,     \* the last ResetOffset invocation a per-cluster consumer received
  clientClosed,  \* broker client: number of Close() calls
  doneC,         \* number of close(doneC) executed (0 = open)
  msgC,          \* number of close(msgC) executed (0 = open)
  delivered,     \* per-cluster consumer: messages it has written to msgC
  lifecycle,     \* state of the coordinator's lifecycle guard
  lock,          \* the caller inside the guard, or "free"
  pc,            \* per caller: position
  seen,          \* per caller: the guard state its current call found
  todo,          \* per caller: keys the current range loop has not visited yet
  err,           \* per caller: err of Start()
  ret,           \* per caller: the value the finished call returns
  arg,           \* per caller: arguments of the current ResetOffset/MergeDLQ
  errList,       \* per caller: errList of MergeDLQ
  attempted,     \* per caller: the ResetOffset calls of MergeDLQ, partition and result
  failed,        \* per caller: partitions whose ResetOffset returned an error
  calls,         \* number of public calls made so far
  nStart         \* number of Start() calls made so far

consVars == <<options, built, pce>>
mapVars == <<registered, clients, startErr>>
ccVars == <<ccLife, startInvoked, stopInvoked>>
resetVars == <<resetInvoked, lastReset>>
stopVars == <<clientClosed, doneC>>
chanVars == <<msgC, delivered>>
guardVars == <<lifecycle, lock>>
mergeVars == <<arg, errList, attempted, failed>>
vars == <<options, built, pce, registered, clients, startErr, ccLife, startInvoked,
          stopInvoked, resetInvoked, lastReset, clientClosed, doneC, msgC, delivered,
          lifecycle, lock, pc, seen, todo, err, ret, arg, errList, attempted, failed, calls, nStart>>

NoArg == [op |-> "none"]
NoReset == [cluster |-> "none"]
NoPce == [n |-> 0, option |-> 0, panic |-> FALSE, errs |-> << >>]

\* ---------------------------------------------------------- lifecycle guard
\* States of util.RunLifecycle.
GuardStates == {"NotStarted", "Starting", "Running", "Stopping", "Stopped"}

\* RunLifecycle.Start runs its function only from NotStarted.
GuardStartRuns(s) == s = "NotStarted"

\* RunLifecycle.Stop runs its function unless never started or already stopped.
GuardStopRuns(s) == s \in {"Starting", "Running"}

\* RunLifecycle.Status: (started, stopped)
Status(s) == [started |-> s # "NotStarted", stopped |-> s = "Stopped"]

\* ------------------------------------------------------ per-cluster consumer
\* ClusterConsumer.Start through its own guard: the result and the new state.
ClusterStartErr(c) ==
  IF ~GuardStartRuns(ccLife[c]) THEN ErrStartedTwice
  ELSE IF startErr[c] THEN ErrClusterStart ELSE NoError

ClusterStartLife(c) ==
  IF ~GuardStartRuns(ccLife[c]) THEN ccLife[c]
  ELSE IF startErr[c] THEN "Starting" ELSE "Running"

\* ClusterConsumer.Stop through its own guard.
ClusterStopLife(c) == IF GuardStopRuns(ccLife[c]) THEN "Stopped" ELSE ccLife[c]

\* ------------------------------------------------------- construction options
\* The value EnablePartialConstruction returns: enabled, no error list yet
\* (errs is a nil pointer).
NewPartialConstruction ==
  [kind |-> "partialConstruction", enabled |-> TRUE, errsNil |-> TRUE, errs |-> << >>]

\* A ConsumerOption of any other type.
OtherOption ==
  [kind |-> "other", enabled |-> FALSE, errsNil |-> TRUE, errs |-> << >>]

\* partialConstruction.apply over the option list: the resulting
\* Options.PartialConstruction (false unless an option sets it).
RECURSIVE ApplyOptions(_, _)
ApplyOptions(opts, acc) ==
  IF Len(opts) = 0 THEN acc
  ELSE ApplyOptions(Tail(opts),
         IF Head(opts).kind = "partialConstruction" THEN Head(opts).enabled ELSE acc)

\* addPartialConstructionError assigning to a copy of the option: nothing is attached.
addPartialConstructionErrorMutant(opts, errs) == opts

\* consumerBuildOptions.addPartialConstructionError: every partialConstruction
\* option of the list gets the error list.
addPartialConstructionError(opts, errs) ==
  [i \in DOMAIN opts |->
     IF opts[i].kind = "partialConstruction"
     THEN [opts[i] EXCEPT !.errsNil = FALSE, !.errs = errs]
     ELSE opts[i]]

\* PartialConstructionError without the check of the option's type.
PartialConstructionErrorMutant(option) ==
  IF option.errsNil THEN [panic |-> TRUE, errs |-> << >>]
  ELSE [panic |-> FALSE, errs |-> option.errs]

\* PartialConstructionError: nil for another option type, else pe.errs.errs,
\* which dereferences pe.errs.
PartialConstructionError(option) ==
  IF option.kind # "partialConstruction" THEN [panic |-> FALSE, errs |-> << >>]
  ELSE IF option.errsNil THEN [panic |-> TRUE, errs |-> << >>]
  ELSE [panic |-> FALSE, errs |-> option.errs]

\* The (topic, cause) entries of the clusters whose setup failed, in topic order.
RECURSIVE SetupErrors(_, _)
SetupErrors(topics, setupFail) ==
  IF Len(topics) = 0 THEN << >>
  ELSE (IF Head(topics).Cluster \in setupFail
        THEN << [Topic |-> Head(topics).Name, Cause |-> "setup failed"] >>
        ELSE << >>) \o SetupErrors(Tail(topics), setupFail)

\* -------------------------------------------------------------------- Init
Init ==
  /\ options = << >>
  /\ built = "none"
  /\ pce = NoPce
  /\ registered = {}
  /\ clients = {}
  /\ startErr = [c \in ConfiguredClusters |-> FALSE]
  /\ ccLife = [c \in ConfiguredClusters |-> "NotStarted"]
  /\ startInvoked = [c \in ConfiguredClusters |-> 0]
  /\ stopInvoked = [c \in ConfiguredClusters |-> 0]
  /\ resetInvoked = [c \in ConfiguredClusters |-> 0]
  /\ lastReset = NoReset
  /\ clientClosed = [c \in ConfiguredClusters |-> 0]
  /\ doneC = 0
  /\ msgC = 0
  /\ delivered = [c \in ConfiguredClusters |-> 0]
  /\ lifecycle = "NotStarted"
  /\ lock = "free"
  /\ pc = [t \in Threads |-> "idle"]
  /\ seen = [t \in Threads |-> "none"]
  /\ todo = [t \in Threads |-> {}]
  /\ err = [t \in Threads |-> NoError]
  /\ ret = [t \in Threads |-> NoError]
  /\ arg = [t \in Threads |-> NoArg]
  /\ errList = [t \in Threads |-> << >>]
  /\ attempted = [t \in Threads |-> << >>]
  /\ failed = [t \in Threads |-> {}]
  /\ calls = 0
  /\ nStart = 0

coordVars == <<registered, clients, startErr, ccLife, startInvoked, stopInvoked,
               resetInvoked, lastReset, clientClosed, doneC, msgC, delivered,
               lifecycle, lock, pc, seen, todo, err, ret, arg, errList, attempted, failed, nStart>>

\* --------------------------------------------------- building the option list
\* The caller appends the option EnablePartialConstruction() returns.
EnablePartialConstruction ==
  /\ built = "none"
  /\ Len(options) < MaxOptions
  /\ options' = Append(options, NewPartialConstruction)
  /\ UNCHANGED <<built, pce, calls>>
  /\ UNCHANGED coordVars

\* The caller appends an option of another type.
AddOtherOption ==
  /\ built = "none"
  /\ Len(options) < MaxOptions
  /\ options' = Append(options, OtherOption)
  /\ UNCHANGED <<built, pce, calls>>
  /\ UNCHANGED coordVars

\* The constructor: the clusters in setupFail cannot be set up.  Without
\* partial construction any failure aborts; with it the failed clusters are
\* skipped and recorded, and the list is attached to the options.
Construct(setupFail, se) ==
  /\ built = "none"
  /\ \A c \in setupFail : ~se[c]
  /\ IF setupFail # {} /\ ~ApplyOptions(options, FALSE)
     THEN /\ built' = "failed"
          /\ UNCHANGED <<options, registered, clients, startErr>>
     ELSE /\ built' = "ok"
          /\ registered' = ConfiguredClusters \ setupFail
          /\ clients' = ConfiguredClusters \ setupFail
          /\ startErr' = se
          /\ options' = addPartialConstructionError(options, SetupErrors(TopicList, setupFail))
  /\ UNCHANGED <<pce, calls, ccLife, startInvoked, stopInvoked, resetInvoked, lastReset,
                 clientClosed, doneC, msgC, delivered, lifecycle, lock, pc, seen, todo,
                 err, ret, arg, errList, attempted, failed, nStart>>

\* The caller reads the error list through the accessor.
PartialConstructionErrorCall(i) ==
  /\ calls < MaxCalls
  /\ i \in DOMAIN options
  /\ pce' = [n |-> pce.n + 1, option |-> i] @@ PartialConstructionError(options[i])
  /\ calls' = calls + 1
  /\ UNCHANGED <<options, built>>
  /\ UNCHANGED coordVars

\* ----------------------------------------------------- MultiClusterConsumer
DoneStates == {"startDone", "stopDone", "resetDone", "mergeDone"}

\* StartEnter running the start function without moving the guard.
StartEnterGuardUnmoved(t) ==
  /\ built = "ok"
  /\ pc[t] = "idle"
  /\ calls < MaxCalls
  /\ lock = "free"
  /\ calls' = calls + 1
  /\ nStart' = nStart + 1
  /\ seen' = [seen EXCEPT ![t] = lifecycle]
  /\ IF GuardStartRuns(lifecycle)
     THEN /\ lifecycle' = lifecycle
          /\ lock' = t
          /\ todo' = [todo EXCEPT ![t] = registered]
          /\ pc' = [pc EXCEPT ![t] = "startLoop"]
          /\ err' = err
     ELSE /\ err' = [err EXCEPT ![t] = ErrStartedTwice]
          /\ pc' = [pc EXCEPT ![t] = "startFailed"]
          /\ UNCHANGED <<lifecycle, lock, todo>>
  /\ UNCHANGED <<consVars, mapVars, chanVars, ccVars, resetVars, stopVars, mergeVars, ret>>

\* StartEnter letting a stopped coordinator start again.
StartEnterRestarts(t) ==
  /\ built = "ok"
  /\ pc[t] = "idle"
  /\ calls < MaxCalls
  /\ lock = "free"
  /\ calls' = calls + 1
  /\ nStart' = nStart + 1
  /\ seen' = [seen EXCEPT ![t] = lifecycle]
  /\ IF GuardStartRuns(lifecycle) \/ lifecycle = "Stopped"
     THEN /\ lifecycle' = "Starting"
          /\ lock' = t
          /\ todo' = [todo EXCEPT ![t] = registered]
          /\ pc' = [pc EXCEPT ![t] = "startLoop"]
          /\ err' = err
     ELSE /\ err' = [err EXCEPT ![t] = ErrStartedTwice]
          /\ pc' = [pc EXCEPT ![t] = "startFailed"]
          /\ UNCHANGED <<lifecycle, lock, todo>>
  /\ UNCHANGED <<consVars, mapVars, chanVars, ccVars, resetVars, stopVars, mergeVars, ret>>

\* StartEnter running the start function outside the guard's lock.
StartEnterNoLock(t) ==
  /\ built = "ok"
  /\ pc[t] = "idle"
  /\ calls < MaxCalls
  /\ calls' = calls + 1
  /\ nStart' = nStart + 1
  /\ seen' = [seen EXCEPT ![t] = lifecycle]
  /\ IF GuardStartRuns(lifecycle)
     THEN /\ lifecycle' = "Starting"
          /\ lock' = lock
          /\ todo' = [todo EXCEPT ![t] = registered]
          /\ pc' = [pc EXCEPT ![t] = "startLoop"]
          /\ err' = err
     ELSE /\ err' = [err EXCEPT ![t] = ErrStartedTwice]
          /\ pc' = [pc EXCEPT ![t] = "startFailed"]
          /\ UNCHANGED <<lifecycle, lock, todo>>
  /\ UNCHANGED <<consVars, mapVars, chanVars, ccVars, resetVars, stopVars, mergeVars, ret>>

\* Start, up to the guard: a first Start enters the guarded function, any
\* other gets the guard's error without running it.
StartEnter(t) ==
  /\ built = "ok"
  /\ pc[t] = "idle"
  /\ calls < MaxCalls
  /\ lock = "free"
  /\ calls' = calls + 1
  /\ nStart' = nStart + 1
  /\ seen' = [seen EXCEPT ![t] = lifecycle]
  /\ IF GuardStartRuns(lifecycle)
     THEN /\ lifecycle' = "Starting"
          /\ lock' = t
          /\ todo' = [todo EXCEPT ![t] = registered]
          /\ pc' = [pc EXCEPT ![t] = "startLoop"]
          /\ err' = err
     ELSE /\ err' = [err EXCEPT ![t] = ErrStartedTwice]
          /\ pc' = [pc EXCEPT ![t] = "startFailed"]
          /\ UNCHANGED <<lifecycle, lock, todo>>
  /\ UNCHANGED <<consVars, mapVars, chanVars, ccVars, resetVars, stopVars, mergeVars, ret>>

\* StartCluster with the loop left after the first consumer that started.
StartClusterMutant(t, c) ==
  /\ pc[t] = "startLoop"
  /\ c \in todo[t]
  /\ startInvoked' = [startInvoked EXCEPT ![c] = @ + 1]
  /\ ccLife' = [ccLife EXCEPT ![c] = ClusterStartLife(c)]
  /\ IF ClusterStartErr(c) # NoError
     THEN /\ err' = [err EXCEPT ![t] = ClusterStartErr(c)]
          /\ todo' = [todo EXCEPT ![t] = {}]
          /\ pc' = [pc EXCEPT ![t] = "startFailed"]
          /\ lock' = "free"
     ELSE /\ todo' = [todo EXCEPT ![t] = {}]
          /\ UNCHANGED <<err, pc, lock>>
  /\ UNCHANGED <<consVars, mapVars, chanVars, stopInvoked, resetVars, stopVars, lifecycle,
                 mergeVars, ret, seen, calls, nStart>>

\* StartCluster remembering a failure and going on with the remaining keys.
StartClusterContinues(t, c) ==
  /\ pc[t] = "startLoop"
  /\ c \in todo[t]
  /\ startInvoked' = [startInvoked EXCEPT ![c] = @ + 1]
  /\ ccLife' = [ccLife EXCEPT ![c] = ClusterStartLife(c)]
  /\ todo' = [todo EXCEPT ![t] = @ \ {c}]
  /\ IF ClusterStartErr(c) # NoError
     THEN /\ err' = [err EXCEPT ![t] = ClusterStartErr(c)]
          /\ IF todo[t] = {c}
             THEN pc' = [pc EXCEPT ![t] = "startFailed"] /\ lock' = "free"
             ELSE UNCHANGED <<pc, lock>>
     ELSE /\ IF todo[t] = {c} /\ err[t] # NoError
             THEN pc' = [pc EXCEPT ![t] = "startFailed"] /\ lock' = "free"
             ELSE UNCHANGED <<pc, lock>>
          /\ err' = err
  /\ UNCHANGED <<consVars, mapVars, chanVars, stopInvoked, resetVars, stopVars, lifecycle,
                 mergeVars, ret, seen, calls, nStart>>

\* One iteration of the range loop of the guarded start function, on a key
\* the loop has not visited; the first failure ends the function.
StartCluster(t, c) ==
  /\ pc[t] = "startLoop"
  /\ c \in todo[t]
  /\ startInvoked' = [startInvoked EXCEPT ![c] = @ + 1]
  /\ ccLife' = [ccLife EXCEPT ![c] = ClusterStartLife(c)]
  /\ IF ClusterStartErr(c) # NoError
     THEN /\ err' = [err EXCEPT ![t] = ClusterStartErr(c)]
          /\ todo' = [todo EXCEPT ![t] = {}]
          /\ pc' = [pc EXCEPT ![t] = "startFailed"]
          /\ lock' = "free"
     ELSE /\ todo' = [todo EXCEPT ![t] = @ \ {c}]
          /\ UNCHANGED <<err, pc, lock>>
  /\ UNCHANGED <<consVars, mapVars, chanVars, stopInvoked, resetVars, stopVars, lifecycle,
                 mergeVars, ret, seen, calls, nStart>>

\* The guarded function returns nil: the guard is Running, Start returns nil.
StartReturn(t) ==
  /\ pc[t] = "startLoop"
  /\ todo[t] = {}
  /\ lifecycle' = "Running"
  /\ lock' = "free"
  /\ pc' = [pc EXCEPT ![t] = "startDone"]
  /\ ret' = [ret EXCEPT ![t] = NoError]
  /\ UNCHANGED <<consVars, mapVars, chanVars, ccVars, resetVars, stopVars, mergeVars,
                 todo, err, seen, calls, nStart>>

\* StopEnter running the teardown without asking the guard.
StopEnterMutant(t) ==
  /\ built = "ok"
  /\ pc[t] \in {"idle", "startFailed"}
  /\ lock = "free"
  /\ IF pc[t] = "idle"
     THEN calls < MaxCalls /\ calls' = calls + 1
     ELSE calls' = calls
  /\ seen' = [seen EXCEPT ![t] = lifecycle]
  /\ lifecycle' = "Stopping"
  /\ lock' = t
  /\ todo' = [todo EXCEPT ![t] = registered]
  /\ pc' = [pc EXCEPT ![t] = "stopConsumers"]
  /\ ret' = ret
  /\ UNCHANGED <<consVars, mapVars, chanVars, ccVars, resetVars, stopVars, mergeVars, err, nStart>>

\* Stop, up to the guard; called by a caller, or by Start after an error.
StopEnter(t) ==
  /\ built = "ok"
  /\ pc[t] \in {"idle", "startFailed"}
  /\ lock = "free"
  /\ IF pc[t] = "idle"
     THEN calls < MaxCalls /\ calls' = calls + 1
     ELSE calls' = calls
  /\ seen' = [seen EXCEPT ![t] = lifecycle]
  /\ IF GuardStopRuns(lifecycle)
     THEN /\ lifecycle' = "Stopping"
          /\ lock' = t
          /\ todo' = [todo EXCEPT ![t] = registered]
          /\ pc' = [pc EXCEPT ![t] = "stopConsumers"]
          /\ ret' = ret
     ELSE /\ pc' = [pc EXCEPT ![t] = IF pc[t] = "startFailed" THEN "startDone" ELSE "stopDone"]
          /\ ret' = [ret EXCEPT ![t] = err[t]]
          /\ UNCHANGED <<lifecycle, lock, todo>>
  /\ UNCHANGED <<consVars, mapVars, chanVars, ccVars, resetVars, stopVars, mergeVars, err, nStart>>

\* StopCluster with the loop left after the first consumer.
StopClusterMutant(t, c) ==
  /\ pc[t] = "stopConsumers"
  /\ c \in todo[t]
  /\ stopInvoked' = [stopInvoked EXCEPT ![c] = @ + 1]
  /\ ccLife' = [ccLife EXCEPT ![c] = ClusterStopLife(c)]
  /\ todo' = [todo EXCEPT ![t] = {}]
  /\ UNCHANGED <<consVars, mapVars, chanVars, startInvoked, resetVars, stopVars, guardVars,
                 mergeVars, pc, err, ret, seen, calls, nStart>>

\* Teardown, first loop: consumer.Stop() on a key not visited yet.
StopCluster(t, c) ==
  /\ pc[t] = "stopConsumers"
  /\ c \in todo[t]
  /\ stopInvoked' = [stopInvoked EXCEPT ![c] = @ + 1]
  /\ ccLife' = [ccLife EXCEPT ![c] = ClusterStopLife(c)]
  /\ todo' = [todo EXCEPT ![t] = @ \ {c}]
  /\ UNCHANGED <<consVars, mapVars, chanVars, startInvoked, resetVars, stopVars, guardVars,
                 mergeVars, pc, err, ret, seen, calls, nStart>>

\* StopClustersDone leaving the first loop before it has visited every key.
StopClustersDoneEarly(t) ==
  /\ pc[t] = "stopConsumers"
  /\ pc' = [pc EXCEPT ![t] = "stopClients"]
  /\ todo' = [todo EXCEPT ![t] = clients]
  /\ UNCHANGED <<consVars, mapVars, chanVars, ccVars, resetVars, stopVars, guardVars,
                 mergeVars, err, ret, seen, calls, nStart>>

\* Teardown: the first loop is over, the loop over the broker clients begins.
StopClustersDone(t) ==
  /\ pc[t] = "stopConsumers"
  /\ todo[t] = {}
  /\ pc' = [pc EXCEPT ![t] = "stopClients"]
  /\ todo' = [todo EXCEPT ![t] = clients]
  /\ UNCHANGED <<consVars, mapVars, chanVars, ccVars, resetVars, stopVars, guardVars,
                 mergeVars, err, ret, seen, calls, nStart>>

\* Teardown, second loop: client.Close() on a key not visited yet.
StopClient(t, c) ==
  /\ pc[t] = "stopClients"
  /\ c \in todo[t]
  /\ clientClosed' = [clientClosed EXCEPT ![c] = @ + 1]
  /\ todo' = [todo EXCEPT ![t] = @ \ {c}]
  /\ UNCHANGED <<consVars, mapVars, chanVars, ccVars, resetVars, doneC, guardVars,
                 mergeVars, pc, err, ret, seen, calls, nStart>>

\* StopCloseDone closing the outbound channel along with the done signal.
StopCloseDoneClosesMsgC(t) ==
  /\ pc[t] = "stopClients"
  /\ todo[t] = {}
  /\ doneC' = doneC + 1
  /\ msgC' = msgC + 1
  /\ lifecycle' = "Stopped"
  /\ lock' = "free"
  /\ pc' = [pc EXCEPT ![t] = IF err[t] # NoError THEN "startDone" ELSE "stopDone"]
  /\ ret' = [ret EXCEPT ![t] = err[t]]
  /\ UNCHANGED <<consVars, mapVars, delivered, ccVars, resetVars, clientClosed, mergeVars,
                 todo, err, seen, calls, nStart>>

\* StopCloseDone without close(doneC).
StopCloseDoneMutant(t) ==
  /\ pc[t] = "stopClients"
  /\ todo[t] = {}
  /\ doneC' = doneC
  /\ lifecycle' = "Stopped"
  /\ lock' = "free"
  /\ pc' = [pc EXCEPT ![t] = IF err[t] # NoError THEN "startDone" ELSE "stopDone"]
  /\ ret' = [ret EXCEPT ![t] = err[t]]
  /\ UNCHANGED <<consVars, mapVars, chanVars, ccVars, resetVars, clientClosed, mergeVars,
                 todo, err, seen, calls, nStart>>

\* Teardown, end: close(doneC); the guard is Stopped; Stop returns (and
\* Start, when it called this Stop, returns its error).
StopCloseDone(t) ==
  /\ pc[t] = "stopClients"
  /\ todo[t] = {}
  /\ doneC' = doneC + 1
  /\ lifecycle' = "Stopped"
  /\ lock' = "free"
  /\ pc' = [pc EXCEPT ![t] = IF err[t] # NoError THEN "startDone" ELSE "stopDone"]
  /\ ret' = [ret EXCEPT ![t] = err[t]]
  /\ UNCHANGED <<consVars, mapVars, chanVars, ccVars, resetVars, clientClosed, mergeVars,
                 todo, err, seen, calls, nStart>>

\* The caller takes the result of its finished call.
Return(t) ==
  /\ pc[t] \in DoneStates
  /\ pc' = [pc EXCEPT ![t] = "idle"]
  /\ seen' = [seen EXCEPT ![t] = "none"]
  /\ err' = [err EXCEPT ![t] = NoError]
  /\ ret' = [ret EXCEPT ![t] = NoError]
  /\ arg' = [arg EXCEPT ![t] = NoArg]
  /\ errList' = [errList EXCEPT ![t] = << >>]
  /\ attempted' = [attempted EXCEPT ![t] = << >>]
  /\ failed' = [failed EXCEPT ![t] = {}]
  /\ UNCHANGED <<consVars, mapVars, chanVars, ccVars, resetVars, stopVars, guardVars,
                 todo, calls, nStart>>

\* The message pump of a per-cluster consumer: between its start and its stop
\* the consumer writes messages to the shared outbound channel on its own.
Deliver(c) ==
  /\ built = "ok"
  /\ c \in registered
  /\ ccLife[c] = "Running"
  /\ delivered[c] < MaxMsgs
  /\ delivered' = [delivered EXCEPT ![c] = @ + 1]
  /\ UNCHANGED <<consVars, mapVars, msgC, ccVars, resetVars, stopVars, guardVars,
                 mergeVars, pc, todo, err, ret, seen, calls, nStart>>

\* ---------------------------------------------------------------- ResetOffset
\* LookupCluster falling back to some registered consumer for an unknown key.
LookupClusterMutant(cluster) ==
  IF cluster \in registered THEN cluster
  ELSE IF registered = {} THEN "none" ELSE CHOOSE c \in registered : TRUE

\* cc, ok := c.clusterConsumerMap[cluster]: the key found, or "none".
LookupCluster(cluster) == IF cluster \in registered THEN cluster ELSE "none"

\* ResetOffsetResult replacing the consumer's error by its own.
ResetOffsetResultMutant(cluster, r) ==
  IF LookupCluster(cluster) = "none" \/ r # NoError THEN ErrNoCluster ELSE r

\* What ResetOffset returns, r being what the per-cluster consumer would return.
ResetOffsetResult(cluster, r) ==
  IF LookupCluster(cluster) = "none" THEN ErrNoCluster ELSE r

\* The invocation ResetOffset passes on to the per-cluster consumer.
ResetOffsetPassed(cluster, topic, partition, offsetRange) ==
  [cluster |-> LookupCluster(cluster), topic |-> topic, partition |-> partition,
   offsetRange |-> offsetRange]

\* The per-cluster consumers after ResetOffset: the one found is invoked once.
ResetOffsetEffect(cluster, topic, partition, offsetRange) ==
  IF LookupCluster(cluster) = "none"
  THEN UNCHANGED resetVars
  ELSE /\ resetInvoked' = [resetInvoked EXCEPT ![LookupCluster(cluster)] = @ + 1]
       /\ lastReset' = ResetOffsetPassed(cluster, topic, partition, offsetRange)

\* A caller's ResetOffset call, in any lifecycle state.
ResetOffset(t, cluster, topic, partition, offsetRange, r) ==
  /\ built = "ok"
  /\ pc[t] = "idle"
  /\ calls < MaxCalls
  /\ calls' = calls + 1
  /\ ResetOffsetEffect(cluster, topic, partition, offsetRange)
  /\ arg' = [arg EXCEPT ![t] = [op |-> "ResetOffset", cluster |-> cluster, topic |-> topic,
                                partition |-> partition, offsetRange |-> offsetRange,
                                clusterResult |-> r]]
  /\ ret' = [ret EXCEPT ![t] = ResetOffsetResult(cluster, r)]
  /\ pc' = [pc EXCEPT ![t] = "resetDone"]
  /\ UNCHANGED <<consVars, mapVars, chanVars, ccVars, stopVars, guardVars, errList, attempted,
                 failed, todo, err, seen, nStart>>

\* ------------------------------------------------------------------- MergeDLQ
Range(f) == {f[i] : i \in DOMAIN f}

\* The partitions of the call's map the range loop has not visited yet.
MergeRemaining(t) ==
  (DOMAIN arg[t].offsetRanges) \ {a.partition : a \in Range(attempted[t])}

\* MergeDLQ: errList is created empty.
MergeEnter(t, topic, offsetRanges) ==
  /\ built = "ok"
  /\ pc[t] = "idle"
  /\ calls < MaxCalls
  /\ calls' = calls + 1
  /\ arg' = [arg EXCEPT ![t] = [op |-> "MergeDLQ", topic |-> topic,
                                offsetRanges |-> offsetRanges]]
  /\ errList' = [errList EXCEPT ![t] = << >>]
  /\ attempted' = [attempted EXCEPT ![t] = << >>]
  /\ failed' = [failed EXCEPT ![t] = {}]
  /\ pc' = [pc EXCEPT ![t] = "mergeLoop"]
  /\ UNCHANGED <<consVars, mapVars, chanVars, ccVars, resetVars, stopVars, guardVars,
                 todo, err, ret, seen, nStart>>

\* MergePartition dropping the error instead of appending it.
MergePartitionMutant(t, partition, r) ==
  /\ pc[t] = "mergeLoop"
  /\ partition \in MergeRemaining(t)
  /\ LET topic == arg[t].topic
         e == ResetOffsetResult(topic.DLQ.Cluster, r)
     IN /\ ResetOffsetEffect(topic.DLQ.Cluster, topic.DLQ.Name, partition,
                             arg[t].offsetRanges[partition])
        /\ errList' = errList
        /\ failed' = [failed EXCEPT ![t] = IF e # NoError THEN @ \cup {partition} ELSE @]
  /\ attempted' = [attempted EXCEPT ![t] =
                     Append(@, [partition |-> partition,
                                result |-> ResetOffsetResult(arg[t].topic.DLQ.Cluster, r)])]
  /\ UNCHANGED <<consVars, mapVars, chanVars, ccVars, stopVars, guardVars, arg,
                 pc, todo, err, ret, seen, calls, nStart>>

\* One iteration of the range loop: ResetOffset on the DLQ topic for one
\* partition; an error is formatted and appended.
MergePartition(t, partition, r) ==
  /\ pc[t] = "mergeLoop"
  /\ partition \in MergeRemaining(t)
  /\ LET topic == arg[t].topic
         e == ResetOffsetResult(topic.DLQ.Cluster, r)
     IN /\ ResetOffsetEffect(topic.DLQ.Cluster, topic.DLQ.Name, partition,
                             arg[t].offsetRanges[partition])
        /\ errList' = [errList EXCEPT ![t] =
                         IF e # NoError THEN Append(@, FormatPartitionErr(partition, e)) ELSE @]
        /\ failed' = [failed EXCEPT ![t] = IF e # NoError THEN @ \cup {partition} ELSE @]
  /\ attempted' = [attempted EXCEPT ![t] =
                     Append(@, [partition |-> partition,
                                result |-> ResetOffsetResult(arg[t].topic.DLQ.Cluster, r)])]
  /\ UNCHANGED <<consVars, mapVars, chanVars, ccVars, stopVars, guardVars, arg,
                 pc, todo, err, ret, seen, calls, nStart>>

\* MergeReturn leaving the loop at the first failure.
MergeReturnMutant(t) ==
  /\ pc[t] = "mergeLoop"
  /\ MergeRemaining(t) = {} \/ Len(errList[t]) > 0
  /\ ret' = [ret EXCEPT ![t] =
               IF Len(errList[t]) = 0 THEN NoError ELSE FormatMergeErr(errList[t])]
  /\ pc' = [pc EXCEPT ![t] = "mergeDone"]
  /\ UNCHANGED <<consVars, mapVars, chanVars, ccVars, resetVars, stopVars, guardVars, mergeVars,
                 todo, err, seen, calls, nStart>>

\* The loop is over: nil for an empty errList, else the joined error.
MergeReturn(t) ==
  /\ pc[t] = "mergeLoop"
  /\ MergeRemaining(t) = {}
  /\ ret' = [ret EXCEPT ![t] =
               IF Len(errList[t]) = 0 THEN NoError ELSE FormatMergeErr(errList[t])]
  /\ pc' = [pc EXCEPT ![t] = "mergeDone"]
  /\ UNCHANGED <<consVars, mapVars, chanVars, ccVars, resetVars, stopVars, guardVars, mergeVars,
                 todo, err, seen, calls, nStart>>

\* The maps a caller passes to MergeDLQ.
OffsetRangeMaps == UNION {[S -> {o}] : S \in SUBSET Partitions, o \in OffsetRanges}

\* ------------------------------------------------------------- specification
\* Building the option list and constructing the coordinator.
NextConstruct ==
  \/ EnablePartialConstruction
  \/ \E setupFail \in SUBSET ConfiguredClusters :
       \E se \in [ConfiguredClusters -> BOOLEAN] : Construct(setupFail, se)

\* Start and Stop, called at any time by the callers in T.
NextLifecycle(T) ==
  \/ \E t \in T : StartEnter(t)
  \/ \E t \in T : \E c \in ConfiguredClusters : StartCluster(t, c)
  \/ \E t \in T : StartReturn(t)
  \/ \E t \in T : StopEnter(t)
  \/ \E t \in T : \E c \in ConfiguredClusters : StopCluster(t, c)
  \/ \E t \in T : StopClustersDone(t)
  \/ \E t \in T : \E c \in ConfiguredClusters : StopClient(t, c)
  \/ \E t \in T : StopCloseDone(t)
  \/ \E t \in T : Return(t)

\* The lifecycle of the coordinator under concurrent callers.
Next ==
  \/ NextConstruct
  \/ NextLifecycle(Threads)

Spec == Init /\ [][Next]_vars

\* ResetOffset calls of one caller while the other drives the lifecycle.
NextReset ==
  \/ NextConstruct
  \/ NextLifecycle({"g2"})
  \/ \E cluster \in AllNames : \E topic \in ResetTopics :
       \E partition \in ResetPartitions : \E offsetRange \in OffsetRanges :
         \E r \in ClusterResetResults :
           ResetOffset("g1", cluster, topic, partition, offsetRange, r)
  \/ Return("g1")

SpecReset == Init /\ [][NextReset]_vars

\* MergeDLQ calls of one caller on a constructed coordinator (MergeDLQ neither
\* reads nor writes the lifecycle, so Start and Stop are left out here).
NextMerge ==
  \/ EnablePartialConstruction
  \/ \E setupFail \in SUBSET ConfiguredClusters :
       Construct(setupFail, [c \in ConfiguredClusters |-> FALSE])
  \/ \E i \in DOMAIN TopicList : \E m \in OffsetRangeMaps : MergeEnter("g1", TopicList[i], m)
  \/ \E partition \in Partitions : \E r \in ClusterResetResults :
       MergePartition("g1", partition, r)
  \/ MergeReturn("g1")
  \/ Return("g1")

SpecMerge == Init /\ [][NextMerge]_vars

\* The option list, its accessor, and the lifecycle of what was constructed.
NextOptions ==
  \/ NextConstruct
  \/ AddOtherOption
  \/ \E i \in 1..MaxOptions : PartialConstructionErrorCall(i)
  \/ NextLifecycle(Threads)

SpecOptions == Init /\ [][NextOptions]_vars

\* The maps of the callers that mix MergeDLQ with the other operations.
SmallOffsetRangeMaps ==
  {m \in OffsetRangeMaps : DOMAIN m \subseteq ResetPartitions /\ Range(m) \subseteq {"r1"}}

\* All four operations of the coordinator: one caller drives the lifecycle,
\* the other calls ResetOffset and MergeDLQ at any time.
NextAll ==
  \/ NextConstruct
  \/ NextLifecycle({"g2"})
  \/ \E cluster \in {"c1", "cx"} : \E r \in ClusterResetResults :
       ResetOffset("g1", cluster, "t1", 0, "r1", r)
  \/ \E m \in SmallOffsetRangeMaps : MergeEnter("g1", TopicList[1], m)
  \/ \E partition \in ResetPartitions : \E r \in ClusterResetResults :
       MergePartition("g1", partition, r)
  \/ MergeReturn("g1")
  \/ Return("g1")

SpecAll == Init /\ [][NextAll]_vars

\* The lifecycle under concurrent callers while the started consumers pump
\* messages into the outbound channel.
NextMessages ==
  \/ NextConstruct
  \/ NextLifecycle(Threads)
  \/ \E c \in ConfiguredClusters : Deliver(c)

SpecMessages == Init /\ [][NextMessages]_vars

\* ===================================================================== claims
AllStartsSucceed == \A c \in registered : ~startErr[c]
FailingClusters == {c \in registered : startErr[c]}

\* C1 (as claimed): when exactly one registered per-cluster consumer fails to
\* start, a returned Start() has returned an error, and when that error is the
\* start failure every registered consumer reports stopped=true.
C1_StartFailureStopsAll ==
  \A t \in Threads :
    (pc[t] = "startDone" /\ Cardinality(FailingClusters) = 1)
      => /\ ret[t] # NoError
         /\ ret[t] = ErrClusterStart => \A c \in registered : Status(ccLife[c]).stopped

\* C2: when every registered consumer's start succeeds, the first Start()
\* returns no error, and while the coordinator is Running every registered
\* consumer reports started=true and stopped=false (vacuously for no consumer).
C2_StartSucceeds ==
  AllStartsSucceed =>
    /\ \A t \in Threads :
         (pc[t] = "startDone" /\ (nStart = 1 \/ seen[t] = "NotStarted")) => ret[t] = NoError
    /\ lifecycle = "Running" =>
         \A c \in registered : Status(ccLife[c]) = [started |-> TRUE, stopped |-> FALSE]

\* C2 witness: a first Start() over two consumers has returned nil.
C2_Witness ==
  \E t \in Threads :
    /\ pc[t] = "startDone" /\ ret[t] = NoError /\ nStart = 1
    /\ Cardinality(registered) = 2 /\ lifecycle = "Running"

\* C3 (as claimed): after a Stop() call has returned, the stop operation of
\* every registered consumer has been invoked exactly once.
C3_StopExactlyOnce ==
  \A t \in Threads :
    pc[t] = "stopDone" => \A c \in registered : stopInvoked[c] = 1

\* C3 (amended): no consumer's stop operation is ever invoked twice; once the
\* teardown has run each was invoked exactly once; a Stop() that returns after
\* Start() had been invoked leaves the teardown run; a Stop() on a coordinator
\* never started invokes nothing.
C3_StopOnceWhenStarted ==
  /\ \A c \in ConfiguredClusters : stopInvoked[c] <= 1
  /\ lifecycle = "Stopped" => \A c \in registered : stopInvoked[c] = 1
  /\ \A t \in Threads :
       pc[t] = "stopDone" =>
         IF seen[t] = "NotStarted"
         THEN nStart = 0 => \A c \in registered : stopInvoked[c] = 0
         ELSE lifecycle = "Stopped"

\* C3 witness: a Stop() has returned that found the teardown already run, and
\* each of two consumers was stopped once.
C3_Witness ==
  \E t \in Threads :
    /\ pc[t] = "stopDone" /\ seen[t] = "Stopped"
    /\ Cardinality(registered) = 2
    /\ \A c \in registered : stopInvoked[c] = 1

\* C4 (as claimed): doneC is closed at most once, is closed only when the
\* teardown has run, and is closed after any Stop() has returned.
C4_DoneClosedAfterStop ==
  /\ doneC <= 1
  /\ doneC = 1 => lifecycle = "Stopped"
  /\ \A t \in Threads : pc[t] = "stopDone" => doneC = 1

\* C4 (amended): doneC is closed at most once; it is open until the teardown
\* has run and closed from then on; it is closed after any Stop() that found
\* the coordinator started has returned and after any Start() that returned an
\* error (and so issued Stop()); a Stop() on a never-started coordinator
\* leaves it open.
C4_DoneClosedOnce ==
  /\ doneC <= 1
  /\ doneC = 1 <=> lifecycle = "Stopped"
  /\ \A t \in Threads :
       /\ (pc[t] = "stopDone" /\ seen[t] # "NotStarted") => doneC = 1
       /\ (pc[t] = "stopDone" /\ seen[t] = "NotStarted" /\ nStart = 0) => doneC = 0
       /\ (pc[t] = "startDone" /\ ret[t] # NoError) => doneC = 1

\* C4 witness: a Start() that failed and issued Stop() has returned, another
\* caller's Stop() has returned too, and doneC was closed once.
C4_Witness ==
  \E t \in Threads : \E u \in Threads :
    /\ pc[t] = "startDone" /\ ret[t] # NoError
    /\ pc[u] = "stopDone"
    /\ doneC = 1

\* C5: a ResetOffset call whose cluster is not a key of the cluster-consumer
\* map returns the lookup error and invokes the offset reset of no consumer,
\* whatever the lifecycle state.
C5_UnregisteredResetFails ==
  [][\A t \in Threads :
       (pc[t] = "idle" /\ pc'[t] = "resetDone" /\ arg'[t].cluster \notin registered)
         => /\ ret'[t] = ErrNoCluster
            /\ resetInvoked' = resetInvoked
            /\ lastReset' = lastReset]_vars

\* C5 witness: such a call has returned while a teardown is under way.
C5_Witness ==
  \E t \in Threads :
    /\ pc[t] = "resetDone" /\ arg[t].cluster \notin registered
    /\ ret[t] = ErrNoCluster
    /\ registered # {} /\ lifecycle = "Stopping"

\* The partitions of a finished MergeDLQ call's map, and the entries the error
\* list must hold: one per failed ResetOffset, in the order of the calls.
MergePartitions(t) == DOMAIN arg[t].offsetRanges

RECURSIVE FailureEntries(_)
FailureEntries(att) ==
  IF Len(att) = 0 THEN << >>
  ELSE (IF Head(att).result # NoError
        THEN << FormatPartitionErr(Head(att).partition, Head(att).result) >>
        ELSE << >>) \o FailureEntries(Tail(att))

EachPartitionOnce(t) ==
  /\ Len(attempted[t]) = Cardinality(MergePartitions(t))
  /\ {a.partition : a \in Range(attempted[t])} = MergePartitions(t)

\* C6 (as claimed): when MergeDLQ returns, every partition of the map was
\* reset exactly once, and the error text contains "partition=<n>" for
\* exactly the partitions whose reset failed.
C6_MergeNamesExactlyFailed ==
  \A t \in Threads :
    pc[t] = "mergeDone" =>
      /\ EachPartitionOnce(t)
      /\ \A p \in MergePartitions(t) :
           Contains(ret[t], TxtPartition \o Itoa(p)) <=> p \in failed[t]

\* C6 (amended): when MergeDLQ returns, every partition of the map was reset
\* exactly once; when some reset failed the error text is "DLQ merge failed
\* for " followed by the comma-joined entries "partition=<n> err=<cause>", one
\* entry for each failed partition and none for the others, so it contains
\* "partition=<n>" for every failed partition.
C6_MergeAttemptsAll ==
  \A t \in Threads :
    pc[t] = "mergeDone" =>
      /\ EachPartitionOnce(t)
      /\ failed[t] = {a.partition : a \in {b \in Range(attempted[t]) : b.result # NoError}}
      /\ Len(FailureEntries(attempted[t])) = Cardinality(failed[t])
      /\ failed[t] # {} =>
           ret[t] = TxtMergeFailed \o Join(FailureEntries(attempted[t]), TxtComma)
      /\ \A p \in failed[t] : Contains(ret[t], TxtPartition \o Itoa(p))

\* C6 witness: of three partitions the reset of partition 1 alone failed.
C6_Witness ==
  \E t \in Threads :
    /\ pc[t] = "mergeDone"
    /\ MergePartitions(t) = {0, 1, 12}
    /\ failed[t] = {1}
    /\ Len(attempted[t]) = 3

\* C7: MergeDLQ returns no error exactly when no reset failed; for an empty
\* map it returns no error and has passed nothing to any consumer.
C7_MergeNilIffNoFailure ==
  \A t \in Threads :
    pc[t] = "mergeDone" =>
      /\ ret[t] = NoError <=> failed[t] = {}
      /\ MergePartitions(t) = {} => (ret[t] = NoError /\ attempted[t] = << >>)

\* C7 witness: a MergeDLQ over three partitions, one of which failed, has
\* returned an error.
C7_Witness ==
  \E t \in Threads :
    /\ pc[t] = "mergeDone"
    /\ Cardinality(MergePartitions(t)) = 3
    /\ Cardinality(failed[t]) = 1
    /\ ret[t] # NoError

\* C8: a ResetOffset call for a registered cluster invokes the offset reset of
\* the consumer registered under that name once, with the call's topic,
\* partition and offset range, invokes no other consumer, and returns what
\* that consumer returned.
C8_ResetPassThrough ==
  [][\A t \in Threads :
       (pc[t] = "idle" /\ pc'[t] = "resetDone" /\ arg'[t].cluster \in registered)
         => /\ resetInvoked' = [resetInvoked EXCEPT ![arg'[t].cluster] = @ + 1]
            /\ lastReset' = [cluster |-> arg'[t].cluster, topic |-> arg'[t].topic,
                             partition |-> arg'[t].partition,
                             offsetRange |-> arg'[t].offsetRange]
            /\ ret'[t] = arg'[t].clusterResult]_vars

\* C8 witness: a ResetOffset for a registered cluster has returned the
\* consumer's error while the other consumer was never invoked.
C8_Witness ==
  \E t \in Threads :
    /\ pc[t] = "resetDone" /\ arg[t].cluster \in registered
    /\ ret[t] = ErrOffsetRange
    /\ Cardinality(registered) = 2
    /\ resetInvoked[arg[t].cluster] = 1
    /\ \A c \in registered \ {arg[t].cluster} : resetInvoked[c] = 0

\* The names of the configured topics whose cluster is not registered.
RECURSIVE SkippedTopics(_)
SkippedTopics(topics) ==
  IF Len(topics) = 0 THEN << >>
  ELSE (IF Head(topics).Cluster \notin registered THEN << Head(topics).Name >> ELSE << >>)
       \o SkippedTopics(Tail(topics))

NamesSkippedTopic(res) ==
  /\ ~res.panic
  /\ Len(res.errs) = 1
  /\ res.errs[1].Topic = SkippedTopics(TopicList)[1]

\* C9: a coordinator constructed with partial construction enabled while one
\* of the two clusters failed setup (it then has one registered cluster) holds
\* only the other cluster; the accessor gives, on every enabling option,
\* exactly one entry, naming the failed topic; and when that cluster's
\* consumer starts, the first Start() returns nil having started it alone.
C9_PartialConstruction ==
  (built = "ok" /\ ApplyOptions(options, FALSE) /\ Cardinality(registered) = 1) =>
    /\ Len(SkippedTopics(TopicList)) = 1
    /\ \A i \in DOMAIN options :
         options[i].kind = "partialConstruction" =>
           NamesSkippedTopic(PartialConstructionError(options[i]))
    /\ (pce.n > 0 /\ options[pce.option].kind = "partialConstruction" /\ ~pce.panic) =>
         NamesSkippedTopic(pce)
    /\ \A c \in ConfiguredClusters \ registered : startInvoked[c] = 0 /\ stopInvoked[c] = 0
    /\ AllStartsSucceed =>
         /\ \A t \in Threads :
              (pc[t] = "startDone" /\ (nStart = 1 \/ seen[t] = "NotStarted"))
                => ret[t] = NoError
         /\ lifecycle = "Running" =>
              \A c \in registered : Status(ccLife[c]) = [started |-> TRUE, stopped |-> FALSE]

\* C9 witness: constructed that way, Start() has returned nil and the accessor
\* has returned the one entry.
C9_Witness ==
  /\ built = "ok" /\ ApplyOptions(options, FALSE) /\ Cardinality(registered) = 1
  /\ pce.n > 0 /\ options[pce.option].kind = "partialConstruction"
  /\ ~pce.panic /\ Len(pce.errs) = 1
  /\ lifecycle = "Running"
  /\ \E t \in Threads : pc[t] = "startDone" /\ ret[t] = NoError

\* C10: a PartialConstructionError call on an option that is not the
\* partial-construction option returns nil and changes no option.
C10_UnrelatedOptionNil ==
  [][(pce'.n = pce.n + 1 /\ options[pce'.option].kind # "partialConstruction")
       => /\ ~pce'.panic
          /\ pce'.errs = << >>
          /\ options' = options]_vars

\* C10 witness: the accessor was called on an unrelated option that sits next
\* to a partial-construction option holding a recorded error.
C10_Witness ==
  /\ pce.n > 0 /\ options[pce.option].kind = "other"
  /\ ~pce.panic /\ pce.errs = << >>
  /\ \E i \in DOMAIN options :
       options[i].kind = "partialConstruction" /\ Len(options[i].errs) = 1

\* A Start() has returned nil at some time: the guard has left Starting and
\* the loop has visited every registered consumer without a failure.
StartSucceeded ==
  /\ lifecycle \in {"Running", "Stopping", "Stopped"}
  /\ \A c \in registered : startInvoked[c] = 1 /\ ~startErr[c]

TeardownUntouched ==
  /\ \A c \in ConfiguredClusters : stopInvoked[c] = 0 /\ clientClosed[c] = 0
  /\ doneC = 0

\* C11 (as claimed): as long as no Start() has succeeded, no Stop() has run
\* the teardown: no stop operation was invoked, no broker connection closed,
\* the done signal not closed.
C11_NoTeardownUnlessStartSucceeded ==
  ~StartSucceeded => (TeardownUntouched /\ lifecycle \notin {"Stopping", "Stopped"})

\* C11 (amended): a Stop() on a coordinator whose Start() was never invoked is
\* a no-op of the guard: it returns at once, having invoked no stop operation,
\* closed no broker connection and not closed the done signal.  (After a
\* Start() that failed, Stop() does run the teardown.)
C11_StopBeforeStartIsNoOp ==
  [][\A t \in Threads :
       (pc[t] = "idle" /\ lifecycle = "NotStarted" /\ pc'[t] \notin {"idle", "startLoop", "resetDone", "mergeLoop"})
         => /\ pc'[t] = "stopDone"
            /\ UNCHANGED <<stopInvoked, clientClosed, doneC, msgC, ccLife, lifecycle, lock>>]_vars

\* C11 witness: such a Stop() has returned on a coordinator with two
\* consumers, and nothing was stopped or closed.
C11_Witness ==
  \E t \in Threads :
    /\ pc[t] = "stopDone" /\ seen[t] = "NotStarted"
    /\ Cardinality(registered) = 2 /\ Cardinality(clients) = 2
    /\ TeardownUntouched /\ lifecycle = "NotStarted"

\* C12: in every reachable state, whatever Start, Stop, ResetOffset and
\* MergeDLQ calls were made, the outbound message channel has not been closed;
\* the done signal is the only channel the coordinator closes.
C12_MsgCNeverClosed == msgC = 0

\* C12 witness: the teardown has run to its end (the done signal is closed)
\* after ResetOffset or MergeDLQ reached a consumer, and the outbound channel
\* is open.
C12_Witness ==
  /\ doneC = 1 /\ lifecycle = "Stopped" /\ msgC = 0
  /\ \E c \in registered : resetInvoked[c] > 0 /\ startInvoked[c] > 0
  /\ pc["g1"] = "mergeDone"

\* C13 (as claimed): in every state no per-cluster consumer has had its start
\* operation invoked twice, and none has had its stop operation invoked
\* without its start operation having been invoked before.
C13_NoDoubleStartNoStopBeforeStart ==
  \A c \in registered :
    /\ startInvoked[c] <= 1
    /\ stopInvoked[c] > 0 => startInvoked[c] > 0

\* C14: in the teardown every consumer's stop operation is invoked before any
\* broker connection is closed, and every connection is closed before the
\* done signal is: a closed connection means every stop operation was
\* invoked, a closed done signal means that and every connection closed.
C14_TeardownOrder ==
  /\ (\E k \in clients : clientClosed[k] > 0) => \A c \in registered : stopInvoked[c] >= 1
  /\ doneC > 0 => /\ \A c \in registered : stopInvoked[c] >= 1
                  /\ \A k \in clients : clientClosed[k] >= 1

\* C14 witness: a teardown over two consumers and two connections has closed
\* the done signal.
C14_Witness ==
  /\ doneC = 1
  /\ Cardinality(registered) = 2 /\ Cardinality(clients) = 2
  /\ \A c \in registered : stopInvoked[c] = 1
  /\ \A k \in clients : clientClosed[k] = 1

\* A per-cluster start operation has failed.
SomeStartFailed == \E c \in registered : startErr[c] /\ startInvoked[c] > 0

C16_NoMessageBeforeAllStarted ==
  (\E c \in registered : delivered[c] > 0) => \A d \in registered : startInvoked[d] >= 1

\* C16 (amended): a consumer delivers no message until Start() has passed the
\* coordinator's guard and invoked that consumer's own start operation.
C16_NoMessageBeforeOwnStart ==
  \A c \in ConfiguredClusters :
    delivered[c] > 0 => /\ c \in registered
                        /\ startInvoked[c] >= 1
                        /\ lifecycle # "NotStarted"

\* C16 witness: inside the start loop the consumer started first has
\* delivered a message while the other one is not started yet.
C16_Witness ==
  /\ \E t \in Threads : pc[t] = "startLoop"
  /\ \E c, d \in registered : delivered[c] > 0 /\ startInvoked[d] = 0 /\ ccLife[d] = "NotStarted"

\* C17: Stopped is terminal.  Once the teardown has run, the guard stays
\* Stopped; no start operation and no stop operation is invoked, nothing is
\* closed, no consumer is running or delivers a message; and a Start() made
\* in that state returns an error.
C17_StoppedIsTerminal ==
  [][lifecycle = "Stopped" =>
       /\ lifecycle' = "Stopped"
       /\ UNCHANGED <<startInvoked, stopInvoked, clientClosed, doneC, msgC, ccLife, delivered>>
       /\ \A c \in registered : ccLife[c] # "Running"
       /\ \A t \in Threads :
            (pc[t] # "startDone" /\ pc'[t] = "startDone") => ret'[t] # NoError]_vars

\* C17 witness: after a Start() and the teardown, a later Start() has
\* returned the guard's error, the consumers' counts being what they were.
C17_Witness ==
  /\ lifecycle = "Stopped" /\ doneC = 1
  /\ \E t \in Threads : pc[t] = "startDone" /\ seen[t] = "Stopped" /\ ret[t] = ErrStartedTwice
  /\ Cardinality(registered) = 2
  /\ \A c \in registered : startInvoked[c] = 1 /\ stopInvoked[c] = 1 /\ delivered[c] = 1

\* C18 (as claimed): a Start() refused by the guard of a Running coordinator
\* leaves it Running: the step that caller takes next does not move the
\* guard, invokes no stop operation and closes nothing.
C18_SecondStartLeavesRunning ==
  [][\A t \in Threads :
       (pc[t] = "startFailed" /\ err[t] = ErrStartedTwice /\ seen[t] = "Running"
          /\ lifecycle = "Running" /\ pc'[t] # pc[t])
         => /\ lifecycle' = "Running"
            /\ pc'[t] = "startDone"
            /\ UNCHANGED <<stopInvoked, clientClosed, doneC>>]_vars

\* A consumer is left started and not stopped.
LeftRunning(c) == Status(ccLife[c]).started /\ ~Status(ccLife[c]).stopped

\* C19: under every interleaving of Start() and Stop() calls, once the
\* teardown body has run to its end no registered consumer is left started
\* and not stopped, whether the calls have returned yet or not.
C19_NoneLeftRunning ==
  doneC > 0 => \A c \in registered : ~LeftRunning(c)

\* C19 witness: a Start() and a Stop() of two callers have both returned, the
\* teardown has run, and both consumers that were started are stopped.
C19_Witness ==
  /\ doneC = 1
  /\ \E t, u \in Threads :
       /\ pc[t] = "startDone" /\ ret[t] = NoError
       /\ pc[u] = "stopDone"
  /\ Cardinality(registered) = 2
  /\ \A c \in registered : Status(ccLife[c]) = [started |-> TRUE, stopped |-> TRUE]

\* C20 (as claimed): PartialConstructionError called on an option returned by
\* EnablePartialConstruction completes without a failure, and returns the
\* empty list when no error list has been attached to the option.
C20_AccessorNeverFails ==
  (pce.n > 0 /\ options[pce.option].kind = "partialConstruction")
    => /\ ~pce.panic
       /\ options[pce.option].errsNil => pce.errs = << >>

====
